---- MODULE Spec2Model ----
(***************************************************************************)
(* TransportRetry (src/src/openapi/transport/retry.js): a decorator over   *)
(* a transport that resends failed calls after a timeout, up to a per-verb *)
(* retry limit.                                                            *)
(*                                                                         *)
(* JavaScript runs every handler to completion, so each action below is    *)
(* one whole synchronous section: a verb call, the settling of one         *)
(* promise returned by the underlying transport (its .then handlers), one  *)
(* firing of the setTimeout callback, or one call of dispose.              *)
(***************************************************************************)
EXTENDS Integers, Sequences, FiniteSets, TLC

\* ------------------------------------------------------------------ bounds
\* Number of verb calls the application makes in one run.
MaxCalls == 2
\* The largest retryLimit of the configuration under which the class runs.
MaxRetryLimit == 2

\* ----------------------------------------------------- environment, inputs
\* Verbs the application calls (four of the seven generated by the factory).
Verbs == {"get", "post", "put", "delete"}

\* The argument list of the c-th verb call (opaque to the class); each call
\* passes its own, so that an invocation shows whose arguments it carries.
ArgumentsOf(c) == << "arguments", c >>

\* What the promise of the underlying transport settles with.  A failure
\* descriptor may lack the status field, or carry it with the value 0 (what
\* XMLHttpRequest reports when no response was received) or an HTTP status.
\* "undefined" is a rejection without any value.
Successes ==
    { [kind |-> "value", body |-> b] : b \in {"v1", "v2"} }

Failures ==
    { [kind |-> "failure", hasStatus |-> FALSE, status |-> 0] }
        \cup { [kind |-> "failure", hasStatus |-> TRUE, status |-> s] : s \in {0, 500} }
        \cup { [kind |-> "undefined"] }

Responses == Successes \cup Failures

NoResponse == [kind |-> "none"]

\* ------------------------------------------------------------------- state
VARIABLES
    calls,              \* the verb calls made so far; a managed one is its transportCall
    failedCalls,        \* this.failedCalls: call ids, in array order
    retryTimer,         \* this.retryTimer: "null" or the handle setTimeout returned
    timers,             \* host: the number of setTimeout callbacks not yet run
    inFlight,           \* per call: promises of the underlying transport not yet settled
    invoked,            \* per call: how often the underlying transport was invoked for it
    resolved,           \* per call: the values its caller saw it fulfilled with
    rejected,           \* per call: the values its caller saw it rejected with
    disposed,           \* whether dispose has been called
    waiting,            \* calls handed to addFailedCall and neither resent nor dropped
                        \* since, in the order in which they were handed over
    event               \* the handler that ran last, and what it did

vars == << calls, failedCalls, retryTimer, timers, inFlight, invoked,
           resolved, rejected, disposed, waiting, event >>

\* ------------------------------------------------------------ constructor
\* options.methods: "get" has no entry, "post" has retryLimit 0.
methods ==
    [ post   |-> [retryLimit |-> 0],
      put    |-> [retryLimit |-> 1],
      delete |-> [retryLimit |-> MaxRetryLimit] ]

\* What one handler did: the operation, the call and the transport response
\* it handled, the invocations it made of the underlying transport (in order),
\* whether it raised an error and whether it invoked this.transport.dispose().
Event(op, c, response, sent) ==
    [op |-> op, call |-> c, response |-> response, sent |-> sent,
     threw |-> FALSE, transportDispose |-> FALSE]

Init ==
    /\ calls = << >>
    /\ failedCalls = << >>
    /\ retryTimer = "null"
    /\ timers = 0
    /\ inFlight = [c \in 1..MaxCalls |-> 0]
    /\ invoked = [c \in 1..MaxCalls |-> 0]
    /\ resolved = [c \in 1..MaxCalls |-> << >>]
    /\ rejected = [c \in 1..MaxCalls |-> << >>]
    /\ disposed = FALSE
    /\ waiting = << >>
    /\ event = Event("new", 0, NoResponse, << >>)

\* ---------------------------------------------------------------- helpers
\* Variant: the test written as retryLimit >= 0.
IsManagedFromZero(method) ==
    /\ method \in DOMAIN methods
    /\ methods[method].retryLimit >= 0

\* transportMethod: this.methods[method] && this.methods[method].retryLimit > 0
IsManaged(method) ==
    /\ method \in DOMAIN methods
    /\ methods[method].retryLimit > 0

\* JavaScript truthiness of response.status: a missing field and 0 are falsy.
StatusTruthy(response) ==
    /\ response.kind = "failure"
    /\ response.hasStatus
    /\ response.status # 0

\* Variant: the budget test written as retryCount <= retryLimit.
ShouldRetryInclusive(response, transportCall) ==
    /\ ~ StatusTruthy(response)
    /\ transportCall.retryCount <= methods[transportCall.method].retryLimit

\* Variant: the status of the failure is not looked at.
ShouldRetryAnyFailure(response, transportCall) ==
    transportCall.retryCount < methods[transportCall.method].retryLimit

\* sendTransportCall, rejection handler:
\*   !(response && response.status) && retryCount < methods[method].retryLimit
ShouldRetry(response, transportCall) ==
    /\ ~ StatusTruthy(response)
    /\ transportCall.retryCount < methods[transportCall.method].retryLimit

\* Variant: the fulfilment handler calls resolve without the value.
ResolveArgumentDropped(response) == [kind |-> "undefined"]

\* .then(transportCall.resolve, ...): resolve receives the fulfilment value.
ResolveArgument(response) == response

\* transportCall.reject.apply(null, arguments): the handler is an arrow
\* function, so `arguments` is the argument list of sendTransportCall, whose
\* only element is the transportCall record.
RejectArgument(c, response) == [kind |-> "transportCall", call |-> c]

\* this.transport[method].apply(this.transport, args): one invocation.
Invocation(cs, c) == [call |-> c, method |-> cs[c].method, args |-> cs[c].args]

\* Variant: the call is pushed twice.
PushTwice(queue, c) == Append(Append(queue, c), c)

\* addFailedCall: this.failedCalls.push(transportCall)
Push(queue, c) == Append(queue, c)

\* Variant: a timer is started for every failed call.
StartsTimerAlways(timer) == TRUE

\* Variant: the test written as if (this.retryTimer).
StartsTimerInverted(timer) == timer # "null"

\* addFailedCall: if (!this.retryTimer)
StartsTimer(timer) == timer = "null"

\* Variant: the call is taken with pop().
ShiftFromEnd(queue) ==
    [item |-> queue[Len(queue)], rest |-> SubSeq(queue, 1, Len(queue) - 1)]

\* retryFailedCalls: this.failedCalls.shift()
Shift(queue) == [item |-> Head(queue), rest |-> Tail(queue)]

\* retryFailedCalls: while (failedCalls.length > 0) sendTransportCall(shift()).
\* The promises settle in later jobs, so nothing is pushed during the loop;
\* the result is the calls in the order in which they are sent.
RECURSIVE Drain(_, _)
Drain(queue, sent) ==
    IF Len(queue) > 0
    THEN Drain(Shift(queue).rest, Append(sent, Shift(queue).item))
    ELSE sent

\* Variant: dispose leaves the array as it is.
ClearedQueueKept(queue) == queue

\* dispose: this.failedCalls.length = 0
ClearedQueue(queue) == << >>

\* How many of the invocations of one drain are for call c.
Count(seq, c) == Cardinality({ i \in 1..Len(seq) : seq[i] = c })

\* -------------------------------------------------------------- operations
\* A verb method built by transportMethod(method) is called.  A managed call
\* builds its transportCall and hands it to sendTransportCall; an unmanaged
\* one invokes the underlying transport itself.  Either way the transport is
\* invoked once, with the method and the arguments of the call.
Call(method) ==
    /\ Len(calls) < MaxCalls
    /\ LET c == Len(calls) + 1
           cs == Append(calls, [method |-> method, args |-> ArgumentsOf(c),
                                retryCount |-> 0, managed |-> IsManaged(method)])
       IN /\ calls' = cs
          /\ inFlight' = [inFlight EXCEPT ![c] = @ + 1]
          /\ invoked' = [invoked EXCEPT ![c] = @ + 1]
          /\ event' = Event("call", c, NoResponse, << Invocation(cs, c) >>)
    /\ UNCHANGED << failedCalls, retryTimer, timers, resolved, rejected, disposed, waiting >>

\* The promise of an unmanaged call is the transport's own promise.
SettleDirect(c, response) ==
    /\ ~ calls[c].managed
    /\ IF response.kind = "value"
       THEN /\ resolved' = [resolved EXCEPT ![c] = Append(@, response)]
            /\ UNCHANGED rejected
       ELSE /\ rejected' = [rejected EXCEPT ![c] = Append(@, response)]
            /\ UNCHANGED resolved
    /\ event' = Event("passthrough", c, response, << >>)
    /\ UNCHANGED << calls, failedCalls, retryTimer, timers, waiting >>

\* sendTransportCall, fulfilment handler: transportCall.resolve
OnFulfilled(c, response) ==
    /\ calls[c].managed
    /\ response.kind = "value"
    /\ resolved' = [resolved EXCEPT ![c] = Append(@, ResolveArgument(response))]
    /\ event' = Event("resolve", c, response, << >>)
    /\ UNCHANGED << calls, failedCalls, retryTimer, timers, rejected, waiting >>

\* Variant: addFailedCall without transportCall.retryCount++.
addFailedCallUncounted(c, response) ==
    /\ failedCalls' = Push(failedCalls, c)
    /\ IF StartsTimer(retryTimer)
       THEN /\ retryTimer' = "timeout"
            /\ timers' = timers + 1
       ELSE UNCHANGED << retryTimer, timers >>
    /\ waiting' = Append(waiting, c)
    /\ event' = Event("addFailedCall", c, response, << >>)
    /\ UNCHANGED << calls, resolved, rejected >>

\* sendTransportCall, rejection handler, first branch: addFailedCall
addFailedCall(c, response) ==
    /\ calls' = [calls EXCEPT ![c].retryCount = @ + 1]
    /\ failedCalls' = Push(failedCalls, c)
    /\ IF StartsTimer(retryTimer)
       THEN /\ retryTimer' = "timeout"
            /\ timers' = timers + 1
       ELSE UNCHANGED << retryTimer, timers >>
    /\ waiting' = Append(waiting, c)
    /\ event' = Event("addFailedCall", c, response, << >>)
    /\ UNCHANGED << resolved, rejected >>

\* Variant: the rejection handler without its else: a call that is enqueued
\* is rejected as well.
OnRejectedWithoutElse(c, response) ==
    /\ calls[c].managed
    /\ response.kind # "value"
    /\ rejected' = [rejected EXCEPT ![c] = Append(@, RejectArgument(c, response))]
    /\ UNCHANGED resolved
    /\ IF ShouldRetry(response, calls[c])
       THEN /\ calls' = [calls EXCEPT ![c].retryCount = @ + 1]
            /\ failedCalls' = Push(failedCalls, c)
            /\ IF StartsTimer(retryTimer)
               THEN /\ retryTimer' = "timeout"
                    /\ timers' = timers + 1
               ELSE UNCHANGED << retryTimer, timers >>
            /\ waiting' = Append(waiting, c)
            /\ event' = Event("addFailedCall", c, response, << >>)
       ELSE /\ event' = Event("reject", c, response, << >>)
            /\ UNCHANGED << calls, failedCalls, retryTimer, timers, waiting >>

\* sendTransportCall, rejection handler
OnRejected(c, response) ==
    /\ calls[c].managed
    /\ response.kind # "value"
    /\ IF ShouldRetry(response, calls[c])
       THEN addFailedCall(c, response)
       ELSE /\ rejected' = [rejected EXCEPT ![c] = Append(@, RejectArgument(c, response))]
            /\ event' = Event("reject", c, response, << >>)
            /\ UNCHANGED << calls, failedCalls, retryTimer, timers, resolved, waiting >>

\* The underlying transport settles the promise of one invocation.
TransportAnswers(c, response) ==
    /\ c \in 1..Len(calls)
    /\ inFlight[c] > 0
    /\ inFlight' = [inFlight EXCEPT ![c] = @ - 1]
    /\ \/ SettleDirect(c, response)
       \/ OnFulfilled(c, response)
       \/ OnRejected(c, response)
    /\ UNCHANGED << invoked, disposed >>

\* Variant: retryFailedCalls without this.retryTimer = null.
retryFailedCallsKeepingTimer ==
    /\ timers > 0
    /\ timers' = timers - 1
    /\ LET sent == Drain(failedCalls, << >>)
       IN /\ failedCalls' = << >>
          /\ waiting' = << >>
          /\ inFlight' = [c \in 1..MaxCalls |-> inFlight[c] + Count(sent, c)]
          /\ invoked' = [c \in 1..MaxCalls |-> invoked[c] + Count(sent, c)]
          /\ event' = Event("retryFailedCalls", 0, NoResponse,
                             [i \in 1..Len(sent) |-> Invocation(calls, sent[i])])
    /\ UNCHANGED << calls, retryTimer, resolved, rejected, disposed >>

\* The setTimeout callback runs: retryFailedCalls.
retryFailedCalls ==
    /\ timers > 0
    /\ timers' = timers - 1
    /\ retryTimer' = "null"
    /\ LET sent == Drain(failedCalls, << >>)
       IN /\ failedCalls' = << >>
          /\ waiting' = << >>
          /\ inFlight' = [c \in 1..MaxCalls |-> inFlight[c] + Count(sent, c)]
          /\ invoked' = [c \in 1..MaxCalls |-> invoked[c] + Count(sent, c)]
          /\ event' = Event("retryFailedCalls", 0, NoResponse,
                             [i \in 1..Len(sent) |-> Invocation(calls, sent[i])])
    /\ UNCHANGED << calls, resolved, rejected, disposed >>

\* dispose.  The handle setTimeout returns (a number in browsers, a Timeout
\* object in Node) has no clear method, so with a timer set the call
\* this.retryTimer.clear() raises a TypeError and dispose ends there: the
\* timer stays pending and this.transport.dispose() is not reached.
dispose ==
    /\ disposed' = TRUE
    /\ failedCalls' = ClearedQueue(failedCalls)
    /\ waiting' = << >>
    /\ event' = [ Event("dispose", 0, NoResponse, << >>) EXCEPT
                    !.threw = (retryTimer # "null"),
                    !.transportDispose = (retryTimer = "null") ]
    /\ UNCHANGED << calls, retryTimer, timers, inFlight, invoked, resolved, rejected >>

Next ==
    \/ \E method \in Verbs : Call(method)
    \/ \E c \in 1..MaxCalls, response \in Responses : TransportAnswers(c, response)
    \/ retryFailedCalls
    \/ dispose

Spec == Init /\ [][Next]_vars

\* The underlying transport settles every promise it returned, and a pending
\* setTimeout callback is run by the host.
Fairness ==
    /\ \A c \in 1..MaxCalls : WF_vars(\E response \in Responses : TransportAnswers(c, response))
    /\ WF_vars(retryFailedCalls)

\* The runs in which dispose is never called.
NextWithoutDispose ==
    \/ \E method \in Verbs : Call(method)
    \/ \E c \in 1..MaxCalls, response \in Responses : TransportAnswers(c, response)
    \/ retryFailedCalls

RunWithoutDispose == Init /\ [][NextWithoutDispose]_vars /\ Fairness

\* ------------------------------------------------------------- vocabulary
\* The retry limit the configuration gives a verb (none: 0).
RetryLimitOf(method) ==
    IF method \in DOMAIN methods THEN methods[method].retryLimit ELSE 0

\* A managed verb: configured with a retry limit of at least 1.
ManagedVerb(method) == RetryLimitOf(method) >= 1

ManagedCalls == { c \in 1..Len(calls) : ManagedVerb(calls[c].method) }

UnmanagedCalls == { c \in 1..Len(calls) : ~ ManagedVerb(calls[c].method) }

\* The failure descriptor has a status field, whatever its value.
HasStatusField(response) == response.kind = "failure" /\ response.hasStatus

\* The failure descriptor has a status field whose value is not 0.
HasNonZeroStatus(response) == HasStatusField(response) /\ response.status # 0

Has(queue, c) == \E i \in 1..Len(queue) : queue[i] = c

\* The handler that ran last settled the promise of an invocation for call c.
AnswerTo(e, c) ==
    /\ e.op \in {"passthrough", "resolve", "reject", "addFailedCall"}
    /\ e.call = c

\* ------------------------------------------------------------------ claims
\* C1: a managed call of a verb with retryLimit N that is rejected on a
\* failure without status has had the transport invoked exactly N+1 times:
\* once by the verb call and N times by retryFailedCalls (the only operation
\* that invokes the transport again, one invocation per firing and call).  Its
\* reject continuation has then been invoked exactly once, resolve never, and
\* from then on it is neither invoked again nor put in the queue.
C1_ExhaustedAfterLimitRetries ==
    /\ [](\A c \in ManagedCalls :
            (event.op = "reject" /\ event.call = c /\ ~ HasStatusField(event.response))
                => /\ invoked[c] = RetryLimitOf(calls[c].method) + 1
                   /\ calls[c].retryCount = RetryLimitOf(calls[c].method)
                   /\ Len(rejected[c]) = 1
                   /\ resolved[c] = << >>
                   /\ inFlight[c] = 0
                   /\ ~ Has(failedCalls, c))
    /\ [][\A c \in ManagedCalls :
            /\ invoked'[c] > invoked[c]
                  => (event'.op = "retryFailedCalls" /\ invoked'[c] = invoked[c] + 1)
            /\ rejected[c] # << >>
                  => /\ invoked'[c] = invoked[c]
                     /\ rejected'[c] = rejected[c]
                     /\ resolved'[c] = resolved[c]
                     /\ ~ Has(failedCalls', c)]_vars

\* C1 witness: a delete call (retryLimit MaxRetryLimit) was rejected on its
\* MaxRetryLimit+1st failure without status.
C1_Witness ==
    \E c \in ManagedCalls :
        /\ calls[c].method = "delete"
        /\ event.op = "reject" /\ event.call = c
        /\ ~ HasStatusField(event.response)
        /\ invoked[c] = MaxRetryLimit + 1
        /\ Len(rejected[c]) = 1

\* C2: when a managed call is finally rejected, its reject continuation
\* receives the failure descriptor the transport rejected that attempt with.
C2_RejectsWithFailureDescriptor ==
    \A c \in ManagedCalls :
        (event.op = "reject" /\ event.call = c)
            => rejected[c][Len(rejected[c])] = event.response

\* C3 (as claimed): a rejection of the transport with a failure descriptor
\* that has a status field rejects the managed call in that step, without
\* enqueuing it and without incrementing retryCount.
C3_AnyStatusFieldIsFinal ==
    [][\A c \in ManagedCalls :
        (AnswerTo(event', c) /\ HasStatusField(event'.response))
            => /\ event'.op = "reject"
               /\ Len(rejected'[c]) = Len(rejected[c]) + 1
               /\ calls'[c].retryCount = calls[c].retryCount
               /\ failedCalls' = failedCalls]_vars

\* C3 (amended): a rejection of the transport with a failure descriptor whose
\* status field is not 0 rejects the managed call in that step, without
\* enqueuing it, without incrementing retryCount and without starting a
\* timer, whatever retryCount and retryLimit are; afterwards the transport is
\* never invoked for that call again.
C3_NonZeroStatusIsFinal ==
    /\ [][\A c \in ManagedCalls :
            (AnswerTo(event', c) /\ HasNonZeroStatus(event'.response))
                => /\ event'.op = "reject"
                   /\ Len(rejected'[c]) = Len(rejected[c]) + 1
                   /\ calls'[c].retryCount = calls[c].retryCount
                   /\ failedCalls' = failedCalls
                   /\ ~ Has(failedCalls', c)
                   /\ timers' = timers /\ retryTimer' = retryTimer
                   /\ inFlight'[c] = 0]_vars
    /\ [][\A c \in ManagedCalls :
            (rejected[c] # << >>) => (invoked'[c] = invoked[c] /\ ~ Has(failedCalls', c))]_vars

\* C3 witness: a delete call was rejected on a status 500 at its first
\* attempt, with its whole retry budget left.
C3_Witness ==
    \E c \in ManagedCalls :
        /\ calls[c].method = "delete"
        /\ event.op = "reject" /\ event.call = c
        /\ HasNonZeroStatus(event.response)
        /\ calls[c].retryCount = 0
        /\ invoked[c] = 1
        /\ Len(rejected[c]) = 1

\* C4: when the transport fulfils an attempt of a managed call, the resolve
\* continuation of the call is invoked with exactly that value; it is the
\* only continuation ever invoked for the call, and afterwards the call is
\* never enqueued and the transport never invoked for it again.
C4_FulfilledOnceWithValue ==
    /\ [][\A c \in ManagedCalls :
            (AnswerTo(event', c) /\ event'.response.kind = "value")
                => /\ event'.op = "resolve"
                   /\ resolved'[c] = Append(resolved[c], event'.response)
                   /\ rejected'[c] = rejected[c]
                   /\ failedCalls' = failedCalls
                   /\ calls' = calls]_vars
    /\ [](\A c \in ManagedCalls :
            resolved[c] # << >>
                => /\ Len(resolved[c]) = 1
                   /\ rejected[c] = << >>
                   /\ inFlight[c] = 0
                   /\ ~ Has(failedCalls, c))
    /\ [][\A c \in ManagedCalls :
            resolved[c] # << >>
                => /\ invoked'[c] = invoked[c]
                   /\ resolved'[c] = resolved[c]
                   /\ calls'[c] = calls[c]]_vars

\* C4 witness: a delete call was fulfilled at its third attempt, after two
\* redispatches.
C4_Witness ==
    \E c \in ManagedCalls :
        /\ calls[c].method = "delete"
        /\ event.op = "resolve" /\ event.call = c
        /\ invoked[c] = 3
        /\ calls[c].retryCount = 2
        /\ resolved[c] = << event.response >>

\* C5: a call of a verb without entry in methods, or with retryLimit <= 0,
\* invokes the transport once, with the method and the arguments of the call,
\* and leaves the queue, the timer and every other call's record alone; the
\* caller sees exactly what the transport settles with, and the call is never
\* enqueued, never counted as retried and never invoked again.
C5_UnmanagedPassesThrough ==
    /\ [][\A c \in 1..Len(calls') :
            (event'.op = "call" /\ event'.call = c /\ ~ ManagedVerb(calls'[c].method))
                => /\ event'.sent = << [call |-> c, method |-> calls'[c].method,
                                        args |-> ArgumentsOf(c)] >>
                   /\ invoked'[c] = 1
                   /\ failedCalls' = failedCalls
                   /\ retryTimer' = retryTimer
                   /\ timers' = timers
                   /\ \A d \in 1..Len(calls) : calls'[d] = calls[d]]_vars
    /\ [][\A c \in UnmanagedCalls :
            AnswerTo(event', c)
                => /\ IF event'.response.kind = "value"
                      THEN resolved'[c] = << event'.response >> /\ rejected'[c] = << >>
                      ELSE rejected'[c] = << event'.response >> /\ resolved'[c] = << >>
                   /\ failedCalls' = failedCalls
                   /\ retryTimer' = retryTimer
                   /\ timers' = timers
                   /\ calls' = calls]_vars
    /\ [](\A c \in UnmanagedCalls :
            /\ invoked[c] = 1
            /\ calls[c].retryCount = 0
            /\ ~ Has(failedCalls, c))

\* C5 witness: a get call (no entry) and a post call (retryLimit 0) have both
\* failed without status and were left at one invocation.
C5_Witness ==
    \E c, d \in UnmanagedCalls :
        /\ calls[c].method = "get" /\ calls[d].method = "post"
        /\ rejected[c] = << [kind |-> "failure", hasStatus |-> FALSE, status |-> 0] >>
        /\ rejected[d] = << [kind |-> "failure", hasStatus |-> FALSE, status |-> 0] >>
        /\ invoked[c] = 1 /\ invoked[d] = 1
        /\ inFlight[c] = 0 /\ inFlight[d] = 0

\* A call has been made and exactly one of its continuations has been invoked,
\* exactly once.
SettledOnce(c) ==
    /\ c <= Len(calls)
    /\ Len(resolved[c]) + Len(rejected[c]) = 1

\* The calls a handler sent to the transport, in the order of the invocations.
SentCalls(e) == [i \in 1..Len(e.sent) |-> e.sent[i].call]

\* C6: in a run without dispose (RunWithoutDispose) in which the transport
\* settles every promise and a pending timer fires, every managed call made
\* reaches a state from which exactly one continuation has been invoked,
\* once, for good.
C6_EveryManagedCallSettles ==
    \A c \in 1..MaxCalls :
        [] ((c <= Len(calls) /\ ManagedVerb(calls[c].method)) => <>[] SettledOnce(c))

\* C6 witness: without dispose, a delete call was retried up to its limit and
\* then rejected, and a put call was retried and then fulfilled.
C6_Witness ==
    /\ ~ disposed
    /\ \E c, d \in ManagedCalls :
        /\ calls[c].method = "delete" /\ calls[d].method = "put"
        /\ calls[c].retryCount = MaxRetryLimit /\ calls[d].retryCount = 1
        /\ Len(rejected[c]) = 1 /\ resolved[c] = << >>
        /\ Len(resolved[d]) = 1 /\ rejected[d] = << >>

\* C7: retryCount of a managed call is always between 0 and the retryLimit of
\* its verb; a failure without status of a call whose retryCount equals the
\* limit rejects the call, leaves retryCount alone and does not enqueue it,
\* and a rejected call is never in the queue.
C7_RetryCountWithinLimit ==
    /\ [](\A c \in ManagedCalls :
            /\ calls[c].retryCount >= 0
            /\ calls[c].retryCount <= RetryLimitOf(calls[c].method))
    /\ [][\A c \in ManagedCalls :
            ( /\ AnswerTo(event', c)
              /\ event'.response.kind # "value"
              /\ ~ HasStatusField(event'.response)
              /\ calls[c].retryCount = RetryLimitOf(calls[c].method) )
                => /\ event'.op = "reject"
                   /\ Len(rejected'[c]) = Len(rejected[c]) + 1
                   /\ calls'[c].retryCount = calls[c].retryCount
                   /\ failedCalls' = failedCalls
                   /\ ~ Has(failedCalls', c)]_vars
    /\ [](\A c \in ManagedCalls : rejected[c] # << >> => ~ Has(failedCalls, c))

\* C7 witness: a put call (retryLimit 1) with retryCount 1 was rejected on a
\* rejection without value.
C7_Witness ==
    \E c \in ManagedCalls :
        /\ calls[c].method = "put"
        /\ calls[c].retryCount = 1
        /\ event.op = "reject" /\ event.call = c
        /\ event.response.kind = "undefined"
        /\ invoked[c] = 2

\* C8: at most one timer is outstanding, and the timer reference is set
\* exactly while it is.  Enqueuing a failed call starts a timer only when none
\* is pending; otherwise the call joins the queue of the pending timer.  One
\* firing sends every call that is in the queue at that moment to the
\* transport, once, and leaves the queue empty and no timer pending.
C8_OneTimerOneBatch ==
    /\ [](timers <= 1 /\ (retryTimer = "null" <=> timers = 0))
    /\ [][event'.op = "addFailedCall"
            => /\ failedCalls # << >> => timers = 1
               /\ timers' = 1
               /\ timers = 1 => retryTimer' = retryTimer
               /\ Len(failedCalls') = Len(failedCalls) + 1
               /\ Has(failedCalls', event'.call)
               /\ \A d \in 1..Len(calls) : Has(failedCalls, d) => Has(failedCalls', d)]_vars
    /\ [][event'.op = "retryFailedCalls"
            => /\ Len(event'.sent) = Len(failedCalls)
               /\ \A c \in 1..Len(calls) :
                    /\ invoked'[c] = invoked[c] + (IF Has(failedCalls, c) THEN 1 ELSE 0)
                    /\ inFlight'[c] = inFlight[c] + (IF Has(failedCalls, c) THEN 1 ELSE 0)
                    /\ Has(failedCalls, c) <=> Has(SentCalls(event'), c)
               /\ failedCalls' = << >>
               /\ timers' = 0]_vars

\* C8 witness: one firing has sent two calls of different verbs, the second
\* of which was enqueued while the timer started for the first was pending.
C8_Witness ==
    /\ event.op = "retryFailedCalls"
    /\ Len(event.sent) = 2
    /\ event.sent[1].method = "put" /\ event.sent[2].method = "delete"
    /\ failedCalls = << >>
    /\ timers = 0

\* C9: a firing of the timer invokes the transport for the queued calls in the
\* order in which they were handed to addFailedCall, each with the method and
\* the arguments of its call.
C9_RedispatchInEnqueueOrder ==
    [][event'.op = "retryFailedCalls"
        => /\ SentCalls(event') = waiting
           /\ \A i \in 1..Len(event'.sent) :
                event'.sent[i] = [call |-> waiting[i],
                                  method |-> calls[waiting[i]].method,
                                  args |-> ArgumentsOf(waiting[i])]]_vars

\* C9 witness: one firing has sent the second call before the first: the
\* second (a put, retryCount 1) had been enqueued before the first (a delete,
\* retryCount 2).
C9_Witness ==
    /\ event.op = "retryFailedCalls"
    /\ SentCalls(event) = << 2, 1 >>
    /\ calls[1].method = "delete" /\ calls[1].retryCount = 2
    /\ calls[2].method = "put" /\ calls[2].retryCount = 1

\* C10: once dispose has been called, no firing of the timer sends a call to
\* the underlying transport.
C10_NoRedispatchAfterDispose ==
    [][disposed => ~ (event'.op = "retryFailedCalls" /\ event'.sent # << >>)]_vars

\* A managed call that was handed to addFailedCall, has not been sent to the
\* transport since and is not in the queue: dispose has removed it.
Abandoned(cs, inv, queue, c) ==
    /\ c <= Len(cs)
    /\ cs[c].retryCount >= 1
    /\ inv[c] = cs[c].retryCount
    /\ ~ Has(queue, c)

\* C11: when dispose returns, no timer is outstanding: a timer that was
\* pending when dispose was called has been cancelled.
C11_DisposeCancelsTimer ==
    event.op = "dispose" => timers = 0

\* C12: every call of dispose invokes the dispose operation of the underlying
\* transport.
C12_DisposeDelegates ==
    event.op = "dispose" => event.transportDispose

\* C13: no call of dispose raises an error.
C13_DisposeNeverThrows ==
    event.op = "dispose" => ~ event.threw

\* C14: dispose empties the queue and invokes no continuation; a call that
\* was in the queue when dispose was called is abandoned, and an abandoned
\* call stays abandoned: neither of its continuations is ever invoked and the
\* transport is never invoked for it again.
C14_DisposeAbandonsQueuedCalls ==
    /\ [][event'.op = "dispose"
            => /\ failedCalls' = << >>
               /\ resolved' = resolved
               /\ rejected' = rejected
               /\ \A c \in 1..Len(calls) :
                    Has(failedCalls, c) => Abandoned(calls', invoked', failedCalls', c)]_vars
    /\ [](\A c \in 1..Len(calls) :
            Abandoned(calls, invoked, failedCalls, c)
                => /\ resolved[c] = << >>
                   /\ rejected[c] = << >>
                   /\ inFlight[c] = 0)
    /\ [][\A c \in 1..Len(calls) :
            Abandoned(calls, invoked, failedCalls, c)
                => /\ Abandoned(calls', invoked', failedCalls', c)
                   /\ invoked'[c] = invoked[c]]_vars

\* C14 witness: dispose removed a delete call from the queue; the timer
\* started for it has fired since and sent nothing, and the call has neither
\* been fulfilled nor rejected.
C14_Witness ==
    /\ disposed
    /\ event.op = "retryFailedCalls"
    /\ event.sent = << >>
    /\ \E c \in ManagedCalls :
        /\ calls[c].method = "delete"
        /\ Abandoned(calls, invoked, failedCalls, c)
        /\ resolved[c] = << >> /\ rejected[c] = << >>

\* C15: whenever the timer reference is set, the queue is not empty.
C15_TimerSetImpliesQueued ==
    retryTimer # "null" => failedCalls # << >>

\* C16: one firing of the timer sends each queued call at most once and
\* leaves the queue empty, the timer reference cleared and no timer pending.
\* A call enters the queue only in a later step, when the promise of an
\* invocation is rejected; that step leaves a timer pending, which it has
\* started itself if none was, so the call is sent by a timer started after
\* the firing that sent it last.
C16_DrainThenNewTimer ==
    /\ [][event'.op = "retryFailedCalls"
            => /\ \A c \in 1..Len(calls) :
                    /\ Count(SentCalls(event'), c) <= 1
                    /\ invoked'[c] <= invoked[c] + 1
                    /\ ~ Has(failedCalls', c)
               /\ failedCalls' = << >>
               /\ retryTimer' = "null"
               /\ timers' = 0]_vars
    /\ [][\A c \in 1..Len(calls) :
            (Has(failedCalls', c) /\ ~ Has(failedCalls, c))
                => /\ event'.op = "addFailedCall" /\ event'.call = c
                   /\ inFlight'[c] = inFlight[c] - 1
                   /\ invoked'[c] = invoked[c]
                   /\ timers' = 1
                   /\ retryTimer' # "null"
                   /\ retryTimer = "null" => timers' = timers + 1]_vars

\* C16 witness: a delete call sent by one firing has failed again and is in
\* the queue for the second time, under a timer started for it.
C16_Witness ==
    \E c \in ManagedCalls :
        /\ calls[c].method = "delete"
        /\ event.op = "addFailedCall" /\ event.call = c
        /\ calls[c].retryCount = 2
        /\ invoked[c] = 2
        /\ failedCalls = << c >>
        /\ timers = 1

\* What C17 says of the entries of the queue: each is a managed call, has
\* neither continuation invoked, is not in flight, has retryCount >= 1 and is
\* in the queue once.
QueueEntriesWait ==
    \A i \in 1..Len(failedCalls) :
        LET c == failedCalls[i]
        IN /\ c \in ManagedCalls
           /\ resolved[c] = << >>
           /\ rejected[c] = << >>
           /\ inFlight[c] = 0
           /\ calls[c].retryCount >= 1
           /\ Count(failedCalls, c) = 1

\* C17 (as claimed): the entries of the queue are waiting calls, and a call
\* leaves the queue only by being sent to the underlying transport again.
C17_LeavesOnlyByRedispatch ==
    /\ [] QueueEntriesWait
    /\ [][\A c \in 1..Len(calls) :
            (Has(failedCalls, c) /\ ~ Has(failedCalls', c))
                => /\ event'.op = "retryFailedCalls"
                   /\ Has(SentCalls(event'), c)
                   /\ invoked'[c] = invoked[c] + 1]_vars

\* C17 (amended): the entries of the queue are waiting calls, and a call
\* leaves the queue only by being sent to the underlying transport again by a
\* firing of the timer, or by dispose, which empties the queue without
\* sending anything.
C17_LeavesByRedispatchOrDispose ==
    /\ [] QueueEntriesWait
    /\ [][\A c \in 1..Len(calls) :
            (Has(failedCalls, c) /\ ~ Has(failedCalls', c))
                => \/ /\ event'.op = "retryFailedCalls"
                      /\ Has(SentCalls(event'), c)
                      /\ invoked'[c] = invoked[c] + 1
                   \/ /\ event'.op = "dispose"
                      /\ event'.sent = << >>
                      /\ invoked' = invoked
                      /\ failedCalls' = << >>]_vars

\* C17 witness: dispose has just removed two calls of different verbs from
\* the queue.
C17_Witness ==
    /\ event.op = "dispose"
    /\ failedCalls = << >>
    /\ \E c, d \in ManagedCalls :
        /\ calls[c].method = "put" /\ calls[d].method = "delete"
        /\ Abandoned(calls, invoked, failedCalls, c)
        /\ Abandoned(calls, invoked, failedCalls, d)

\* C18: whenever the queue is not empty, a timer is outstanding whose callback
\* will run retryFailedCalls, and the timer reference is set; also after
\* dispose.
C18_QueuedImpliesTimerPending ==
    failedCalls # << >> => (timers >= 1 /\ retryTimer # "null")

\* C18 witness: after a dispose that found a timer pending, a call that was in
\* flight has failed and is in the queue, under that timer.
C18_Witness ==
    /\ disposed
    /\ event.op = "addFailedCall"
    /\ failedCalls = << event.call >>
    /\ timers = 1
    /\ \E c \in ManagedCalls : Abandoned(calls, invoked, failedCalls, c)

\* C19: for every managed call, resolve and reject have been invoked at most
\* once in total.
C19_ContinuationsAtMostOnce ==
    \A c \in ManagedCalls : Len(resolved[c]) + Len(rejected[c]) <= 1

\* C19 witness: in a run with a dispose, a put call was retried and then
\* fulfilled and a delete call was retried and then rejected.
C19_Witness ==
    /\ disposed
    /\ \E c, d \in ManagedCalls :
        /\ calls[c].method = "put" /\ calls[d].method = "delete"
        /\ calls[c].retryCount = 1 /\ calls[d].retryCount >= 1
        /\ Len(resolved[c]) = 1 /\ rejected[c] = << >>
        /\ Len(rejected[d]) = 1 /\ resolved[d] = << >>

\* C20: for every managed call, the transport has been invoked retryCount + 1
\* times while the call is in flight or settled and retryCount times while it
\* is in the queue, and never more than retryLimit + 1 times.
C20_InvocationsFollowRetryCount ==
    \A c \in ManagedCalls :
        /\ (inFlight[c] > 0 \/ resolved[c] # << >> \/ rejected[c] # << >>)
              => invoked[c] = calls[c].retryCount + 1
        /\ Has(failedCalls, c) => invoked[c] = calls[c].retryCount
        /\ invoked[c] <= RetryLimitOf(calls[c].method) + 1

\* C20 witness: a delete call waits in the queue after its second invocation
\* while a put call is in flight for the second time.
C20_Witness ==
    \E c, d \in ManagedCalls :
        /\ calls[c].method = "delete" /\ calls[d].method = "put"
        /\ Has(failedCalls, c) /\ calls[c].retryCount = 2 /\ invoked[c] = 2
        /\ inFlight[d] = 1 /\ calls[d].retryCount = 1 /\ invoked[d] = 2

====
